---- MODULE Spec2Model ----
(***************************************************************************)
(* Hookshot: hook detection over a mono PCM buffer.                        *)
(*   src/src/energy.js    unified feature extractor + energy hook scorer   *)
(*   src/src/sections.js  chroma self-similarity chorus detector           *)
(*   src/unnamed/part_001 command-line entry point: method selection and   *)
(*                        guard rails                                      *)
(*                                                                         *)
(* Numbers.  JavaScript numbers are modelled as exact rationals <<n, d>>   *)
(* in lowest terms with d > 0, extended with <<1,0>> (+Infinity),          *)
(* <<-1,0>> (-Infinity) and <<0,0>> (NaN).  Float32/Float64 rounding is    *)
(* not modelled.  Arrays are functions over 0..n-1, as in the source.      *)
(***************************************************************************)
EXTENDS Integers, Sequences, FiniteSets, TLC

(* ------------------------------------------------------------------ *)
(* Bounds of the model                                                 *)
(* ------------------------------------------------------------------ *)
\* longest sample buffer explored by the energy scorer
MaxSamples == 8
\* longest sample buffer explored by the chorus detector
MaxChorusSamples == 10
\* most sections (runs of frames with the same harmony) in an explored track
MaxSections == 2
\* longest track given to main, in samples
MaxMainSamples == 10
\* most sections in a track given to main
MaxMainSections == 2

(* ------------------------------------------------------------------ *)
(* Rational arithmetic with the IEEE special values                    *)
(* ------------------------------------------------------------------ *)
Abs(x) == IF x < 0 THEN -x ELSE x
Max(x, y) == IF x > y THEN x ELSE y
Min(x, y) == IF x < y THEN x ELSE y
Sign(x) == IF x > 0 THEN 1 ELSE IF x < 0 THEN -1 ELSE 0

RECURSIVE Gcd(_, _)
Gcd(x, y) == IF y = 0 THEN x ELSE Gcd(y, x % y)

Rat(n, d) ==
  IF d = 0 THEN <<Sign(n), 0>>
  ELSE LET g == Gcd(Abs(n), Abs(d))
       IN  <<Sign(d) * (n \div g), Abs(d) \div g>>

Zero == <<0, 1>>
One == <<1, 1>>
PosInf == <<1, 0>>
NegInf == <<-1, 0>>
NaN == <<0, 0>>
IntR(n) == <<n, 1>>

IsNaN(a) == a = NaN
IsFinite(a) == a[2] # 0

RNeg(a) == <<-a[1], a[2]>>

RAdd(a, b) ==
  IF a = Zero THEN b
  ELSE IF b = Zero THEN a
  ELSE IF IsNaN(a) \/ IsNaN(b) THEN NaN
  ELSE IF a[2] = 0 /\ b[2] = 0 THEN (IF a[1] = b[1] THEN a ELSE NaN)
  ELSE IF a[2] = 0 THEN a
  ELSE IF b[2] = 0 THEN b
  ELSE LET g == Gcd(a[2], b[2])
       IN  Rat(a[1] * (b[2] \div g) + b[1] * (a[2] \div g), (a[2] \div g) * b[2])

RSub(a, b) == RAdd(a, RNeg(b))

RMul(a, b) ==
  IF a = One THEN b
  ELSE IF b = One THEN a
  ELSE IF (a = Zero /\ b[2] # 0) \/ (b = Zero /\ a[2] # 0) THEN Zero
  ELSE IF IsNaN(a) \/ IsNaN(b) THEN NaN
  ELSE LET g1 == Gcd(Abs(a[1]), b[2])
           g2 == Gcd(Abs(b[1]), a[2])
       IN  IF a[2] = 0 \/ b[2] = 0
           THEN <<Sign(a[1]) * Sign(b[1]), 0>>
           ELSE Rat((a[1] \div g1) * (b[1] \div g2), (a[2] \div g2) * (b[2] \div g1))

\* a / b as JavaScript divides: x/0 is +-Infinity, 0/0 is NaN
RDiv(a, b) ==
  IF b = One THEN a
  ELSE IF IsNaN(a) \/ IsNaN(b) THEN NaN
  ELSE IF a[2] = 0 /\ b[2] = 0 THEN NaN
  ELSE IF b[2] = 0 THEN Zero
  ELSE IF b[1] = 0 THEN <<Sign(a[1]), 0>>
  ELSE IF a[2] = 0 THEN <<a[1] * Sign(b[1]), 0>>
  ELSE RMul(a, Rat(b[2], b[1]))

\* a < b ; every comparison with NaN is false
RLt(a, b) ==
  IF a[2] = b[2] /\ a[2] # 0 THEN a[1] < b[1]
  ELSE IF IsNaN(a) \/ IsNaN(b) THEN FALSE
  ELSE IF a[2] = 0 /\ b[2] = 0 THEN a[1] < b[1]
  ELSE LET g == Gcd(a[2], b[2])
       IN  a[1] * (b[2] \div g) < b[1] * (a[2] \div g)

RGt(a, b) == RLt(b, a)
RLe(a, b) == ~IsNaN(a) /\ ~IsNaN(b) /\ ~RLt(b, a)

\* Math.floor of a finite rational
RFloor(a) == a[1] \div a[2]

\* Math.round of a finite rational: floor(x + 0.5)
RRound(a) == (2 * a[1] + a[2]) \div (2 * a[2])

\* x || 1 : 0 and NaN are falsy
OrOne(a) == IF a[1] = 0 THEN One ELSE a

\* Math.sqrt on the rationals whose root is rational
ISqrt(n) == CHOOSE r \in 0..n : r * r = n
IsSquare(n) == \E r \in 0..n : r * r = n
RSqrt(a) == <<ISqrt(a[1]), ISqrt(a[2])>>
HasRSqrt(a) == IsSquare(a[1]) /\ IsSquare(a[2])

(* ------------------------------------------------------------------ *)
(* Arrays: functions over 0..n-1                                       *)
(* ------------------------------------------------------------------ *)
Length(arr) == Cardinality(DOMAIN arr)
Arr(n, F(_)) == [i \in 0..(n - 1) |-> F(i)]
Slice(arr, lo, hi) == [i \in 0..(Min(hi, Length(arr)) - lo - 1) |-> arr[lo + i]]

RECURSIVE SumTo(_, _)
\* arr[0] + ... + arr[n-1]
SumTo(arr, n) == IF n = 0 THEN Zero ELSE RAdd(SumTo(arr, n - 1), arr[n - 1])

(* ------------------------------------------------------------------ *)
(* energy.js : utilities                                               *)
(* ------------------------------------------------------------------ *)
RECURSIVE NextPow2From(_, _)
NextPow2From(p, n) == IF p < n THEN NextPow2From(2 * p, n) ELSE p

\* let p = 1; while (p < n) p <<= 1
nextPow2(n) == NextPow2From(1, n)

\* cos(2*pi*k/m) for the angles whose cosine is rational
CosTurn(k, m) ==
  LET r == (k % m) IN
  IF r = 0 THEN One
  ELSE IF 2 * r = m THEN IntR(-1)
  ELSE IF 4 * r = m \/ 4 * r = 3 * m THEN Zero
  ELSE IF 3 * r = m \/ 3 * r = 2 * m THEN Rat(-1, 2)
  ELSE Rat(1, 2)

\* the angles CosTurn is exact on
CosTurnExact(k, m) ==
  LET r == (k % m) IN
  r = 0 \/ 2 * r = m \/ 4 * r = m \/ 4 * r = 3 * m
        \/ 3 * r = m \/ 3 * r = 2 * m \/ 6 * r = m \/ 6 * r = 5 * m

\* w[i] = 0.5 * (1 - cos(2*pi*i / (N-1)))
HannCoeff(i, N) == RMul(Rat(1, 2), RSub(One, CosTurn(i, N - 1)))

applyHannWindow(buf) ==
  [i \in DOMAIN buf |-> RMul(buf[i], HannCoeff(i, Length(buf)))]

RAbs(a) == <<Abs(a[1]), a[2]>>

\* Magnitudes of bins [0, N/2) of the transform of a real frame.  fft.js is an
\* external library; the model covers the frame lengths 0, 1 and 2, where the
\* single kept bin is |x0 + x1|.
computeFFT(frame) ==
  IF Length(frame) < 2 THEN [k \in 0..1 |-> Zero]
  ELSE [k \in 0..0 |-> RAbs(RAdd(frame[0], frame[1]))]

(* ------------------------------------------------------------------ *)
(* energy.js : unified feature extraction                              *)
(* ------------------------------------------------------------------ *)
\* dead zone threshold for zero crossing detection
ZcrEps == Rat(1, 10000)

\* const sgn = (x) => (x > eps ? 1 : x < -eps ? -1 : 0)
sgn(x) == IF RGt(x, ZcrEps) THEN 1 ELSE IF RLt(x, RNeg(ZcrEps)) THEN -1 ELSE 0

RECURSIVE ZcrLoopAdjacent(_, _, _, _)
\* bug-shaped variant: prev follows every sample, dead-zone samples included
ZcrLoopAdjacent(d, j, prev, crossings) ==
  IF j >= Length(d) THEN crossings
  ELSE LET curr == sgn(d[j])
           hit == prev # 0 /\ curr # 0 /\ prev # curr
       IN  ZcrLoopAdjacent(d, j + 1, curr,
                           IF hit THEN crossings + 1 ELSE crossings)

RECURSIVE ZcrLoop(_, _, _, _)
\* the loop over j = 1 .. frameSize-1 on the DC-removed frame d
ZcrLoop(d, j, prev, crossings) ==
  IF j >= Length(d) THEN crossings
  ELSE LET curr == sgn(d[j])
           hit == prev # 0 /\ curr # 0 /\ prev # curr
       IN  ZcrLoop(d, j + 1,
                   IF curr # 0 THEN curr ELSE prev,
                   IF hit THEN crossings + 1 ELSE crossings)

\* frame[j] = samples[start + j] ?? 0
FrameAt(samples, start, frameSize) ==
  [j \in 0..(frameSize - 1) |->
     IF (start + j) \in DOMAIN samples THEN samples[start + j] ELSE Zero]

FrameSumSquares(frame) ==
  SumTo([j \in DOMAIN frame |-> RMul(frame[j], frame[j])], Length(frame))

FrameEnergy(frame) == RSqrt(RDiv(FrameSumSquares(frame), IntR(Length(frame))))

FrameZcr(frame) ==
  LET mean == RDiv(SumTo(frame, Length(frame)), IntR(Length(frame)))
      d == [j \in DOMAIN frame |-> RSub(frame[j], mean)]
  IN  Rat(ZcrLoop(d, 1, sgn(d[0]), 0), Length(frame) - 1)

FrameMags(frame) == computeFFT(applyHannWindow(frame))

FrameCentroid(mags, sampleRate, frameSize) ==
  LET binHz == Rat(sampleRate, frameSize)
      weighted == [k \in DOMAIN mags |-> RMul(RMul(IntR(k), binHz), mags[k])]
      weightedSum == SumTo(weighted, Length(mags))
      magSum == SumTo(mags, Length(mags))
  IN  IF RGt(magSum, Zero) THEN RDiv(weightedSum, magSum) ELSE Zero

FrameFlux(mags, prevMags) ==
  SumTo([k \in DOMAIN mags |->
           LET diff == RSub(mags[k], prevMags[k])
           IN  IF RGt(diff, Zero) THEN diff ELSE Zero],
        Length(mags))

\* bug-shaped variant: windowSize is taken as the width of the window, not its radius
NoveltyHalfWindow(series) ==
  LET n == Length(series)
      windowSize == 5 \div 2
      novelty == [i \in 0..(n - 1) |->
                    IF i = 0 THEN Zero
                    ELSE LET diff == RSub(series[i], series[i - 1])
                         IN  IF RGt(diff, Zero) THEN diff ELSE Zero]
      lo(i) == Max(0, i - windowSize)
      hi(i) == Min(n - 1, i + windowSize)
  IN  [i \in 0..(n - 1) |->
         RDiv(SumTo([k \in 0..(hi(i) - lo(i)) |-> novelty[lo(i) + k]],
                    hi(i) - lo(i) + 1),
              IntR(hi(i) - lo(i) + 1))]

\* Compute novelty score from any time series
computeNovelty(series) ==
  LET n == Length(series)
      windowSize == 5
      novelty == [i \in 0..(n - 1) |->
                    IF i = 0 THEN Zero
                    ELSE LET diff == RSub(series[i], series[i - 1])
                         IN  IF RGt(diff, Zero) THEN diff ELSE Zero]
      lo(i) == Max(0, i - windowSize)
      hi(i) == Min(n - 1, i + windowSize)
  IN  [i \in 0..(n - 1) |->
         RDiv(SumTo([k \in 0..(hi(i) - lo(i)) |-> novelty[lo(i) + k]],
                    hi(i) - lo(i) + 1),
              IntR(hi(i) - lo(i) + 1))]

\* bug-shaped variant: the frame count is not clamped to at least 1
FrameCountUnclamped(len, frameSize, hop) == ((len - frameSize) \div hop) + 1

\* const nFrames = Math.max(1, Math.floor((len - frameSize) / hop) + 1)
FrameCount(len, frameSize, hop) == Max(1, ((len - frameSize) \div hop) + 1)

\* const targetSize = Math.max(2, Math.floor(sampleRate * frameSec));
\* const frameSize = nextPow2(targetSize)
FrameSize(sampleRate, frameSec) ==
  nextPow2(Max(2, RFloor(RMul(IntR(sampleRate), frameSec))))

\* the series the frame loop fills, and the returned object
FeatureSeries(frame, mags, energy, sampleRate, frameSize, hop) ==
  [features |->
     [energy |-> energy,
      centroid |-> [i \in DOMAIN frame |->
                      FrameCentroid(mags[i], sampleRate, frameSize)],
      zcr |-> [i \in DOMAIN frame |-> FrameZcr(frame[i])],
      spectralFlux |-> [i \in DOMAIN frame |->
                          IF i = 0 THEN Zero
                          ELSE FrameFlux(mags[i], mags[i - 1])],
      novelty |-> computeNovelty(energy)],
   frameSec |-> Rat(hop, sampleRate),
   frameSize |-> frameSize,
   hop |-> hop,
   nFrames |-> Length(frame)]

\* per frame: RMS energy of the raw frame, magnitudes of the windowed frame
FrameLoop(frame, sampleRate, frameSize, hop) ==
  FeatureSeries(frame,
                [i \in DOMAIN frame |-> FrameMags(frame[i])],
                [i \in DOMAIN frame |-> FrameEnergy(frame[i])],
                sampleRate, frameSize, hop)

\* the frames: frame i starts at sample i * hop
ExtractFrames(samples, sampleRate, frameSize, hop) ==
  FrameLoop([i \in 0..(FrameCount(Length(samples), frameSize, hop) - 1) |->
               FrameAt(samples, i * hop, frameSize)],
            sampleRate, frameSize, hop)

\* frameSec is the requested frame duration as a rational number of seconds
extractAllFeatures(samples, sampleRate, frameSec) ==
  ExtractFrames(samples, sampleRate, FrameSize(sampleRate, frameSec),
                FrameSize(sampleRate, frameSec) \div 2)

(* ------------------------------------------------------------------ *)
(* energy.js : hook finding                                            *)
(* ------------------------------------------------------------------ *)
genrePresets ==
  [pop        |-> [energy |-> Rat(30, 100), centroid |-> Rat(30, 100),
                   zcr |-> Rat(15, 100), novelty |-> Rat(25, 100)],
   hiphop     |-> [energy |-> Rat(40, 100), centroid |-> Rat(20, 100),
                   zcr |-> Rat(25, 100), novelty |-> Rat(15, 100)],
   electronic |-> [energy |-> Rat(25, 100), centroid |-> Rat(25, 100),
                   zcr |-> Rat(20, 100), novelty |-> Rat(30, 100)],
   rock       |-> [energy |-> Rat(45, 100), centroid |-> Rat(20, 100),
                   zcr |-> Rat(20, 100), novelty |-> Rat(15, 100)],
   acoustic   |-> [energy |-> Rat(20, 100), centroid |-> Rat(30, 100),
                   zcr |-> Rat(10, 100), novelty |-> Rat(40, 100)]]

RECURSIVE MinLoop(_, _, _)
\* if (arr[i] < min) min = arr[i]
MinLoop(arr, i, min) ==
  IF i >= Length(arr) THEN min
  ELSE MinLoop(arr, i + 1, IF RLt(arr[i], min) THEN arr[i] ELSE min)

RECURSIVE MaxLoop(_, _, _)
\* if (arr[i] > max) max = arr[i]
MaxLoop(arr, i, max) ==
  IF i >= Length(arr) THEN max
  ELSE MaxLoop(arr, i + 1, IF RGt(arr[i], max) THEN arr[i] ELSE max)

\* bug-shaped variant: the minimum is not subtracted
NormalizeByRange(arr) ==
  LET min == MinLoop(arr, 0, PosInf)
      max == MaxLoop(arr, 0, NegInf)
      range == OrOne(RSub(max, min))
  IN  [i \in DOMAIN arr |-> RDiv(arr[i], range)]

\* Normalize each feature to [0, 1] range
normalize(arr) ==
  LET min == MinLoop(arr, 0, PosInf)
      max == MaxLoop(arr, 0, NegInf)
      range == OrOne(RSub(max, min))
  IN  [i \in DOMAIN arr |-> RDiv(RSub(arr[i], min), range)]

\* bug-shaped variant: the best window is replaced on a tie as well
BestWindowLoopOnTie(series, w) ==
  LET curr == RSub(RAdd(w.curr, series[w.i]),
                   IF w.i >= w.win THEN series[w.i - w.win] ELSE Zero)
      hit == w.i >= w.win - 1 /\ RLe(w.bestSum, curr)
  IN  [win |-> w.win, i |-> w.i + 1, curr |-> curr,
       bestSum |-> IF hit THEN curr ELSE w.bestSum,
       bestIdx |-> IF hit THEN w.i - w.win + 1 ELSE w.bestIdx]

\* bestWindowStartSec, one iteration (lines 384-389): curr += series[i];
\* if (i >= win) curr -= series[i - win]; if (i >= win - 1 && curr > bestSum) ...
BestWindowLoop(series, w) ==
  LET curr == RSub(RAdd(w.curr, series[w.i]),
                   IF w.i >= w.win THEN series[w.i - w.win] ELSE Zero)
      hit == w.i >= w.win - 1 /\ RGt(curr, w.bestSum)
  IN  [win |-> w.win, i |-> w.i + 1, curr |-> curr,
       bestSum |-> IF hit THEN curr ELSE w.bestSum,
       bestIdx |-> IF hit THEN w.i - w.win + 1 ELSE w.bestIdx]

\* ps[0] = 0, ps[i + 1] = ps[i] + scores[i]
PrefixSums(scores) == [i \in 0..Length(scores) |-> SumTo(scores, i)]

\* Combined score, prefix sums and window length (lines 314-325)
HookWindows(L, N, scores, winSec, frameSec) ==
  [L |-> L, N |-> N, scores |-> scores, ps |-> PrefixSums(scores),
   win |-> Max(1, RFloor(RDiv(IntR(winSec), frameSec))),
   frameSec |-> frameSec]

\* scores[i] = w.energy * E[i] + w.centroid * C[i] + w.zcr * Z[i] + w.novelty * N[i]
HookScores(L, E, C, Z, N, weights, winSec, frameSec) ==
  HookWindows(L, N,
              [i \in 0..(L - 1) |->
                 RAdd(RAdd(RMul(weights.energy, E[i]), RMul(weights.centroid, C[i])),
                      RAdd(RMul(weights.zcr, Z[i]), RMul(weights.novelty, N[i])))],
              winSec, frameSec)

\* the four series cut to the common length L and normalized (lines 283-312)
HookNormalize(features, L, weights, winSec, frameSec) ==
  HookScores(L,
             normalize(Slice(features.energy, 0, L)),
             normalize(Slice(features.centroid, 0, L)),
             normalize(Slice(features.zcr, 0, L)),
             normalize(Slice(features.novelty, 0, L)),
             weights, winSec, frameSec)

\* const L = Math.min(energy.length, centroid.length, zcr.length, novelty.length)
HookFeatures(result, weights, winSec) ==
  HookNormalize(result.features,
                Min(Min(Length(result.features.energy),
                        Length(result.features.centroid)),
                    Min(Length(result.features.zcr),
                        Length(result.features.novelty))),
                weights, winSec, result.frameSec)

\* Everything findBestHook computes before its window scan.
HookPrepare(smp, rate, winSec, weights) ==
  HookFeatures(extractAllFeatures(smp, rate, Rat(1, 10)), weights, winSec)

\* bug-shaped variant: the bonus reads the novelty of the window's first frame
EntranceOwn(p, k) == RMul(p.N[k], Rat(2, 10))

\* Bonus for dramatic entrance (novelty peak before window)
Entrance(p, k) == IF k > 0 THEN RMul(p.N[k - 1], Rat(2, 10)) ELSE Zero

\* Average score in window using prefix sum, plus the entrance bonus
WindowValue(p, k) ==
  RAdd(RDiv(RSub(p.ps[k + p.win], p.ps[k]), IntR(p.win)), Entrance(p, k))

\* One iteration of the scan: <<best, bestIdx>> after looking at window k.
\* bug-shaped variant: replaces the best on a tie as well
HookStepOnTie(p, k, bst, idx) ==
  LET avg == WindowValue(p, k)
  IN  IF RLe(bst, avg) THEN <<avg, k>> ELSE <<bst, idx>>

\* if (avg > best) { best = avg; bestIdx = i; }
HookStep(p, k, bst, idx) ==
  LET avg == WindowValue(p, k)
  IN  IF RGt(avg, bst) THEN <<avg, k>> ELSE <<bst, idx>>

HookResult(p, bst, idx) ==
  [startSec |-> RMul(IntR(idx), p.frameSec), score |-> bst, frameSec |-> p.frameSec]

(* ------------------------------------------------------------------ *)
(* sections.js : chroma series                                         *)
(* ------------------------------------------------------------------ *)
\* pitch classes of a chroma vector: new Float32Array(12)
ChromaBins == 12

\* Frame grid of stftMag.  The magnitude spectra come from fft.js and are not
\* modelled; what the detector reads from them is the per-frame pitch-class
\* accumulation, which is an input of the model (see chromaSeries).
stftMag(smp, rate, frameSec, hopRatio) ==
  LET target == Max(2, RFloor(RMul(IntR(rate), frameSec)))
      N == nextPow2(target)
      H == Max(1, RFloor(RMul(IntR(N), hopRatio)))
      frames == Max(1, ((Length(smp) - N) \div H) + 1)
  IN  [frames |-> frames, N |-> N, H |-> H, frameSec |-> Rat(N, rate)]

\* lines 86-91 of chromaFromMag: L2 normalize the accumulated pitch classes
chromaFromMag(acc) ==
  LET s == SumTo([k \in DOMAIN acc |-> RMul(acc[k], acc[k])], ChromaBins)
      norm == OrOne(RSqrt(s))
  IN  [k \in DOMAIN acc |-> RDiv(acc[k], norm)]

\* acc[i] is what lines 78-85 of chromaFromMag accumulate from frame i's spectrum
chromaSeries(acc, smp, rate, frameSec, hopRatio) ==
  LET st == stftMag(smp, rate, frameSec, hopRatio)
  IN  [C |-> [k \in 0..(st.frames - 1) |-> chromaFromMag(acc[k])],
       frameSec |-> st.frameSec]

(* ------------------------------------------------------------------ *)
(* sections.js : self-similarity and repetition                        *)
(* ------------------------------------------------------------------ *)
cos(u, v) ==
  LET n == Length(u)
      dot == SumTo([k \in 0..(n - 1) |-> RMul(u[k], v[k])], n)
      na == SumTo([k \in 0..(n - 1) |-> RMul(u[k], u[k])], n)
      nb == SumTo([k \in 0..(n - 1) |-> RMul(v[k], v[k])], n)
      d == OrOne(RMul(RSqrt(na), RSqrt(nb)))
  IN  RDiv(dot, d)

selfSimilarity(C) ==
  LET N == Length(C)
  IN  [r \in 0..(N - 1) |-> [c \in 0..(N - 1) |-> cos(C[r], C[c])]]

safeCell(S, r, c) ==
  IF r \notin DOMAIN S THEN Zero
  ELSE IF c >= 0 /\ c < Length(S[r]) THEN S[r][c] ELSE Zero

RECURSIVE SumOver(_, _)
\* sum of F over a finite set of integers
SumOver(F, set) ==
  IF set = {} THEN Zero
  ELSE LET d == CHOOSE x \in set : \A y \in set : x <= y
       IN  RAdd(F[d], SumOver(F, set \ {d}))

\* smooth1D(x, win): centered moving average, half = floor(win / 2)
smooth1D(x, win) ==
  IF Length(x) = 0 \/ win <= 1 THEN x
  ELSE LET half == win \div 2
           inb(k) == {j \in (k - half)..(k + half) : ~(j < 0 \/ j >= Length(x))}
           c(k) == Cardinality(inb(k))
       IN  [k \in DOMAIN x |->
              RDiv(SumOver(x, inb(k)), IntR(IF c(k) = 0 THEN 1 ELSE c(k)))]

\* the lags d = minLag, minLag + lagStep, ... <= maxLag
Lags(minLag, maxLag, lagStep) ==
  {d \in minLag..maxLag : (d - minLag) % lagStep = 0}

LagParams(opts) ==
  LET minLag == Max(1, RRound(RDiv(opts.minLagSec, opts.frameSec)))
  IN  [minLag |-> minLag,
       maxLag |-> Max(minLag + 1, RRound(RDiv(opts.maxLagSec, opts.frameSec))),
       lagStep |-> Max(1, RRound(RDiv(opts.lagStepSec, opts.frameSec)))]

\* forward lags of frame k that pass "if (i + d + W > N) continue"
ForwardLags(k, N, W, lp) ==
  {d \in Lags(lp.minLag, lp.maxLag, lp.lagStep) : ~(k + d + W > N)}

\* backward lags of frame k that pass "if (i - d < 0 || i - d + W > N) continue"
BackwardLags(k, N, W, lp) ==
  {d \in Lags(lp.minLag, lp.maxLag, lp.lagStep) : ~(k - d < 0 \/ k - d + W > N)}

\* stripe / W for the stripe starting at cell (r, c)
StripeMean(S, r, c, W) ==
  RDiv(SumTo([k \in 0..(W - 1) |-> safeCell(S, r + k, c + k)], W), IntR(W))

\* R[i] before normalization (lines 131-157)
RawRepetition(S, W, lp, bidir) ==
  LET N == Length(S)
  IN  [k \in 0..(N - 1) |->
         LET fwd == ForwardLags(k, N, W, lp)
             bwd == IF bidir THEN BackwardLags(k, N, W, lp) ELSE {}
             count == Cardinality(fwd) + Cardinality(bwd)
             sum == RAdd(SumOver([d \in fwd |-> StripeMean(S, k, k + d, W)], fwd),
                         SumOver([d \in bwd |-> StripeMean(S, k, k - d, W)], bwd))
         IN  IF count # 0 THEN RDiv(sum, IntR(count)) ELSE Zero]

\* const W = Math.max(1, Math.min(w, N))
StripeLength(S, w) == Max(1, Min(w, Length(S)))

\* bug-shaped variant: the maximum is subtracted instead of the minimum
RescaleFromMax(R, mn, mx) ==
  [k \in DOMAIN R |-> RDiv(RSub(R[k], mx), OrOne(RSub(mx, mn)))]

\* lines 160-165: R[i] = (R[i] - mn) / ((mx - mn) || 1)
RescaleRepetition(R, mn, mx) ==
  [k \in DOMAIN R |-> RDiv(RSub(R[k], mn), OrOne(RSub(mx, mn)))]

\* min-max normalize to 0..1
NormalizeRepetition(R) ==
  RescaleRepetition(R, MinLoop(R, 0, PosInf), MaxLoop(R, 0, NegInf))

\* Edge-compensated, bidirectional repetition scoring
repetitionScore(S, w, opts) ==
  NormalizeRepetition(
    RawRepetition(S, StripeLength(S, w), LagParams(opts), opts.bidirectional))

(* ------------------------------------------------------------------ *)
(* sections.js : findChorusHook                                        *)
(* ------------------------------------------------------------------ *)
\* the safe default of lines 176-183 and 216-223
ChorusDefault(frameSec) ==
  [startSec |-> Zero, score |-> Zero, scoreMin |-> Zero, scoreMax |-> One,
   frameSec |-> frameSec]

\* the options findChorusHook passes to repetitionScore (lines 189-195)
ChorusOpts(frameSec, winSec) ==
  [frameSec |-> frameSec,
   minLagSec |-> IntR(6),
   maxLagSec |-> IntR(Min(60, Max(30, 3 * winSec))),
   lagStepSec |-> Rat(1, 4),
   bidirectional |-> TRUE]

\* prefix sums of the smoothed series and the search window W (lines 201-206)
ChorusWindows(cs, S, w, opts, R) ==
  [N |-> Length(cs.C), C |-> cs.C, S |-> S, w |-> w, opts |-> opts, R |-> R,
   ps |-> PrefixSums(R), W |-> Max(1, Min(w, Length(R))),
   frameSec |-> cs.frameSec]

\* const R = smooth1D(repetitionScore(S, w, opts), 5)
ChorusRepetition(cs, S, w, opts) ==
  ChorusWindows(cs, S, w, opts, smooth1D(repetitionScore(S, w, opts), 5))

\* S, w and the lag options from the chroma series (lines 186-195)
ChorusSeries(cs, winSec) ==
  ChorusRepetition(cs, selfSimilarity(cs.C),
                   Max(8, RFloor(RDiv(IntR(winSec), cs.frameSec))),
                   ChorusOpts(cs.frameSec, winSec))

\* Everything findChorusHook computes before its window search (lines 171-206).
ChorusPrepare(acc, smp, rate, winSec) ==
  ChorusSeries(chromaSeries(acc, smp, rate, Rat(464, 10000), Rat(1, 2)), winSec)

\* const score = (ps[i + W] - ps[i]) / W
ChorusWindow(p, k) == RDiv(RSub(p.ps[k + p.W], p.ps[k]), IntR(p.W))

\* bug-shaped variant: the best is replaced on a tie as well
ChorusStepOnTie(p, k, st) ==
  LET score == ChorusWindow(p, k)
  IN  [best |-> IF RLe(st.best, score) THEN score ELSE st.best,
       bestIdx |-> IF RLe(st.best, score) THEN k ELSE st.bestIdx,
       scoreMin |-> IF RLt(score, st.scoreMin) THEN score ELSE st.scoreMin,
       scoreMax |-> IF RGt(score, st.scoreMax) THEN score ELSE st.scoreMax]

\* bug-shaped variant: scoreMax is updated only when the best is not replaced
ChorusStepElseMax(p, k, st) ==
  LET score == ChorusWindow(p, k)
  IN  [best |-> IF RGt(score, st.best) THEN score ELSE st.best,
       bestIdx |-> IF RGt(score, st.best) THEN k ELSE st.bestIdx,
       scoreMin |-> IF RLt(score, st.scoreMin) THEN score ELSE st.scoreMin,
       scoreMax |-> IF ~RGt(score, st.best) /\ RGt(score, st.scoreMax)
                    THEN score ELSE st.scoreMax]

\* One iteration of the windowed search: [best, bestIdx, scoreMin, scoreMax]
ChorusStep(p, k, st) ==
  LET score == ChorusWindow(p, k)
  IN  [best |-> IF RGt(score, st.best) THEN score ELSE st.best,
       bestIdx |-> IF RGt(score, st.best) THEN k ELSE st.bestIdx,
       scoreMin |-> IF RLt(score, st.scoreMin) THEN score ELSE st.scoreMin,
       scoreMax |-> IF RGt(score, st.scoreMax) THEN score ELSE st.scoreMax]

ChorusScanInit ==
  [best |-> NegInf, bestIdx |-> 0, scoreMin |-> PosInf, scoreMax |-> NegInf]

\* lines 214-233
ChorusResult(p, st) ==
  IF ~IsFinite(st.best) THEN ChorusDefault(p.frameSec)
  ELSE [startSec |-> RMul(IntR(st.bestIdx), p.frameSec), score |-> st.best,
        scoreMin |-> st.scoreMin, scoreMax |-> st.scoreMax,
        frameSec |-> p.frameSec]

(* ------------------------------------------------------------------ *)
(* part_001 (command-line entry point) : method selection              *)
(* ------------------------------------------------------------------ *)
\* { ...r, method: m }
Tag(r, m) == [k \in DOMAIN r \cup {"method"} |-> IF k = "method" THEN m ELSE r[k]]

\* { ...r, method: m, normScore: n }
TagNorm(r, m, n) ==
  [k \in DOMAIN r \cup {"method", "normScore"} |->
     IF k = "method" THEN m ELSE IF k = "normScore" THEN n ELSE r[k]]

\* the 1e-9 of "r.scoreMax ?? r.score + 1e-9"
ScoreEps == Rat(1, 1000000000)

\* lo = r.scoreMin ?? r.score
ScoreLo(r) == IF "scoreMin" \in DOMAIN r THEN r.scoreMin ELSE r.score

\* hi - lo with hi = r.scoreMax ?? r.score + 1e-9, the sum taken as
\* (r.score - lo) + 1e-9
ScoreWidth(r) ==
  IF "scoreMax" \in DOMAIN r THEN RSub(r.scoreMax, ScoreLo(r))
  ELSE RAdd(RSub(r.score, ScoreLo(r)), ScoreEps)

\* norm(r.score, lo, hi) with norm = (s, lo, hi) => (s - lo) / ((hi - lo) || 1)
NormScore(r) == RDiv(RSub(r.score, ScoreLo(r)), OrOne(ScoreWidth(r)))

\* bug-shaped variant: no bias towards energy, chorus wins on bN >= aN
PicksChorusNoBias(aNorm, bNorm) == RLe(aNorm, bNorm)

\* (bN > aN * 1.05)
PicksChorus(aNorm, bNorm) == RGt(bNorm, RMul(aNorm, Rat(105, 100)))

\* line 112-113
AutoChoose(aRes, bRes, aNorm, bNorm) ==
  IF PicksChorus(aNorm, bNorm) THEN TagNorm(bRes, "chorus", bNorm)
  ELSE TagNorm(aRes, "energy", aNorm)

\* bug-shaped variant: the fallback result is tagged with the requested method
ForcedChorusMistagged(avail, aRes, bRes) ==
  IF ~avail THEN Tag(aRes, "chorus") ELSE Tag(bRes, "chorus")

\* lines 88-96: argv.method === 'chorus'
ForcedChorus(avail, aRes, bRes) ==
  IF ~avail THEN Tag(aRes, "energy") ELSE Tag(bRes, "chorus")

\* lines 122-125: keep clip inside total duration
\* bug-shaped variant: the guard rails test the start alone, not the clip's end
GuardRailsStartOnly(start, duration, smp, rate) ==
  LET approxDur == Rat(Length(smp), rate)
  IN  IF RGt(start, approxDur)
      THEN (IF RGt(RSub(approxDur, IntR(duration)), Zero)
            THEN RSub(approxDur, IntR(duration)) ELSE Zero)
      ELSE start

GuardRails(start, duration, smp, rate) ==
  LET approxDur == Rat(Length(smp), rate)
  IN  IF RGt(RAdd(start, IntR(duration)), approxDur)
      THEN (IF RGt(RSub(approxDur, IntR(duration)), Zero)
            THEN RSub(approxDur, IntR(duration)) ELSE Zero)
      ELSE start

(* ------------------------------------------------------------------ *)
(* Inputs                                                              *)
(* ------------------------------------------------------------------ *)
\* sample rates in Hz; both give 2-sample frames in extractAllFeatures
SampleRates == {1, 2}
\* clip durations in seconds (17 is the command line's default)
WindowSecs == {1, 3, 17}
Genres == {"hiphop", "acoustic"}
\* clip durations tried on the chorus detector
ChorusWindowSecs == {3, 20}
\* amplitudes in [-1, 1]
Amplitudes == {Rat(1, 7), One}

\* Math.sqrt is modelled on exact roots: the buffers whose frame energies are rational
ExactEnergy(smp) ==
  LET n == Max(1, Length(smp) - 1)
  IN  \A k \in 0..(n - 1) :
        HasRSqrt(RDiv(FrameSumSquares(FrameAt(smp, k, 2)), IntR(2)))

Buffers(maxLen) ==
  {smp \in UNION {[0..(n - 1) -> Amplitudes \cup {Zero}] : n \in 0..maxLen} :
     ExactEnergy(smp)}

None == "none"

\* what lines 78-85 of chromaFromMag can accumulate from one frame's spectrum:
\* nothing (no energy in 80..5000 Hz), one pitch class, or two pitch classes
Silence == [k \in 0..(ChromaBins - 1) |-> Zero]
Tone == [k \in 0..(ChromaBins - 1) |-> IF k = 0 THEN IntR(2) ELSE Zero]
Chord ==
  [k \in 0..(ChromaBins - 1) |->
     IF k = 0 THEN IntR(3) ELSE IF k = 4 THEN IntR(4) ELSE Zero]
ChromaAccs == {Silence, Tone, Chord}

\* a track of n chroma frames made of sections: frame k lies in the section
\* after the last cut at or before k
Sectioned(n, cuts, harmony) ==
  [k \in 0..(n - 1) |->
     harmony[1 + Cardinality({j \in DOMAIN cuts : cuts[j] <= k})]]

ChromaTracks(n) ==
  {Sectioned(n, cuts, harmony) :
     cuts \in [1..(MaxSections - 1) -> 1..n],
     harmony \in [1..MaxSections -> ChromaAccs]}

\* kinds of section of a whole track: <<amplitude, pitch-class accumulation>>
SectionKinds == {<<Rat(1, 7), Silence>>, <<One, Tone>>, <<One, Chord>>}

\* lengths in samples of the tracks given to main: empty, short, and long
\* enough for several windows of 8 chroma frames
MainLengths == {0, 4, MaxMainSamples}
\* clip durations given to main: short, nearly the longest track, longer than it
MainWindowSecs == {3, 9, 20}
Methods == {"auto", "energy", "chorus"}

\* a track of n samples, for the runs that read only the buffer's length
Track(n) == [k \in 0..(n - 1) |-> One]

(* ------------------------------------------------------------------ *)
(* State                                                               *)
(* ------------------------------------------------------------------ *)
VARIABLES
  pc,          \* the statement the run is at
  samples,     \* mono PCM buffer (decodeMonoWav)
  sampleRate,  \* its sample rate in Hz
  windowSec,   \* argv.duration
  genre,       \* argv.genre
  chroma,      \* per chroma frame, the pitch-class accumulation of its spectrum
  prep,        \* findBestHook: normalized series, scores, prefix sums, win
  i,           \* findBestHook: loop index of the window scan
  best,        \* findBestHook: best window value so far
  bestIdx,     \* findBestHook: its start index
  a,           \* findBestHook's return value
  cprep,       \* findChorusHook: C, S, R, prefix sums, W
  ci,          \* findChorusHook: loop index of the windowed search
  cst,         \* findChorusHook: best, bestIdx, scoreMin, scoreMax
  b,           \* findChorusHook's return value
  method,      \* argv.method
  chorusAvail, \* main: require('./sections') gave a function
  aN,          \* main: normalized energy score (auto branch)
  bN,          \* main: normalized chorus score (auto branch)
  chosen,      \* main: the chosen result
  startSec,    \* main: start time handed to renderClip
  frameSec,    \* extractAllFeatures / stftMag: requested frame duration
  fx,          \* extractAllFeatures: frameSize, hop, nFrames
  fi,          \* extractAllFeatures: index of the frame loop
  frame,       \* extractAllFeatures: the working buffer 'frame'
  fz,          \* extractAllFeatures: features.zcr
  stft,        \* stftMag: N, H, frames
  series,      \* the series handed to a series utility
  out,         \* what normalize / computeNovelty returned
  bw           \* bestWindowStartSec: win, i, curr, bestSum, bestIdx

inputVars == <<samples, sampleRate, windowSec, genre, chroma, method, chorusAvail>>
energyVars == <<prep, i, best, bestIdx, a>>
chorusVars == <<cprep, ci, cst, b>>
mainVars == <<aN, bN, chosen, startSec>>
frameVars == <<frameSec, fx, fi, frame, fz, stft>>
seriesVars == <<series, out, bw>>
vars == <<pc, inputVars, energyVars, chorusVars, mainVars, frameVars, seriesVars>>

EnergyIdle == prep = None /\ i = 0 /\ best = NegInf /\ bestIdx = 0 /\ a = None
ChorusIdle == cprep = None /\ ci = 0 /\ cst = ChorusScanInit /\ b = None
MainIdle == aN = None /\ bN = None /\ chosen = None /\ startSec = None
FrameIdle ==
  /\ frameSec = Rat(1, 10) /\ fx = None /\ fi = 0 /\ frame = <<>> /\ fz = <<>>
  /\ stft = None
SeriesIdle == series = <<>> /\ out = None /\ bw = None

(* ------------------------------------------------------------------ *)
(* findBestHook, statement by statement                                *)
(* ------------------------------------------------------------------ *)
InitEnergy ==
  /\ pc = "findBestHook"
  /\ samples \in Buffers(MaxSamples)
  /\ sampleRate \in SampleRates
  /\ windowSec \in WindowSecs
  /\ genre \in Genres
  /\ chroma = <<>>
  /\ method = "energy"
  /\ chorusAvail = TRUE
  /\ EnergyIdle
  /\ ChorusIdle
  /\ MainIdle
  /\ FrameIdle
  /\ SeriesIdle

\* lines 261-327: extraction, normalization, scores, prefix sums
EnergyPrepare ==
  /\ pc = "findBestHook"
  /\ prep' = HookPrepare(samples, sampleRate, windowSec, genrePresets[genre])
  /\ i' = 0
  /\ best' = NegInf
  /\ bestIdx' = 0
  /\ pc' = "scan"
  /\ UNCHANGED <<inputVars, frameVars, seriesVars, a, chorusVars, mainVars>>

\* lines 328-337: one iteration of the window scan
EnergyScan ==
  /\ pc = "scan"
  /\ i + prep.win <= prep.L
  /\ LET nxt == HookStep(prep, i, best, bestIdx)
     IN  /\ best' = nxt[1]
         /\ bestIdx' = nxt[2]
  /\ i' = i + 1
  /\ UNCHANGED <<pc, inputVars, frameVars, seriesVars, prep, a, chorusVars, mainVars>>

\* lines 339-349: the loop is over, return
EnergyReturn ==
  /\ pc = "scan"
  /\ ~(i + prep.win <= prep.L)
  /\ a' = HookResult(prep, best, bestIdx)
  /\ pc' = "energyDone"
  /\ UNCHANGED <<inputVars, frameVars, seriesVars, prep, i, best, bestIdx, chorusVars, mainVars>>

NextEnergy == EnergyPrepare \/ EnergyScan \/ EnergyReturn

SpecEnergy == InitEnergy /\ [][NextEnergy]_vars

(* ------------------------------------------------------------------ *)
(* findChorusHook, statement by statement                              *)
(* ------------------------------------------------------------------ *)
\* number of chroma frames stftMag cuts a buffer of n samples into
ChromaFrames(n, rate) == stftMag(Track(n), rate, Rat(464, 10000), Rat(1, 2)).frames

InitChorus ==
  /\ pc = "findChorusHook"
  /\ sampleRate \in SampleRates
  /\ windowSec \in ChorusWindowSecs
  /\ \E n \in 0..MaxChorusSamples :
       /\ samples = Track(n)
       /\ chroma \in ChromaTracks(ChromaFrames(n, sampleRate))
       /\ n = 0 => chroma[0] = Silence    \* no samples: an all-zero spectrum
  /\ genre = "hiphop"
  /\ method = "chorus"
  /\ chorusAvail = TRUE
  /\ EnergyIdle
  /\ ChorusIdle
  /\ MainIdle
  /\ FrameIdle
  /\ SeriesIdle

\* lines 171-206: chroma, self-similarity, repetition, smoothing, prefix sums
ChorusPrepareStep ==
  /\ pc = "findChorusHook"
  /\ cprep' = ChorusPrepare(chroma, samples, sampleRate, windowSec)
  /\ ci' = 0
  /\ cst' = ChorusScanInit
  /\ pc' = IF Length(cprep'.C) = 0 THEN "noFrames" ELSE "search"
  /\ UNCHANGED <<inputVars, frameVars, seriesVars, energyVars, b, mainVars>>

\* lines 207-212: one iteration of the windowed search
ChorusSearch ==
  /\ pc = "search"
  /\ ci + cprep.W <= Length(cprep.R)
  /\ cst' = ChorusStep(cprep, ci, cst)
  /\ ci' = ci + 1
  /\ UNCHANGED <<pc, inputVars, frameVars, seriesVars, energyVars, cprep, b, mainVars>>

\* lines 214-233: the search is over, return
ChorusReturn ==
  /\ \/ /\ pc = "search"
        /\ ~(ci + cprep.W <= Length(cprep.R))
        /\ b' = ChorusResult(cprep, cst)
     \/ /\ pc = "noFrames"
        /\ b' = ChorusDefault(Rat(464, 10000))
  /\ pc' = "chorusDone"
  /\ UNCHANGED <<inputVars, frameVars, seriesVars, energyVars, cprep, ci, cst, mainVars>>

NextChorus == ChorusPrepareStep \/ ChorusSearch \/ ChorusReturn

SpecChorus == InitChorus /\ [][NextChorus]_vars

(* ------------------------------------------------------------------ *)
(* main: method selection and guard rails                              *)
(* ------------------------------------------------------------------ *)
\* a whole track: the samples and, per chroma frame, what its spectrum holds
MainTrack(n, cuts, kinds) ==
  [samples |-> [k \in 0..(n - 1) |-> Sectioned(n, cuts, kinds)[k][1]],
   chroma |-> [k \in 0..(ChromaFrames(n, 1) - 1) |->
                 IF k < n THEN Sectioned(n, cuts, kinds)[k][2] ELSE Silence]]

MainTracks ==
  {MainTrack(n, cuts, kinds) :
     n \in MainLengths,
     cuts \in [1..(MaxMainSections - 1) -> 1..MaxMainSamples],
     kinds \in [1..MaxMainSections -> SectionKinds]}

InitMain ==
  /\ pc = "main"
  /\ \E t \in MainTracks : samples = t.samples /\ chroma = t.chroma
  /\ sampleRate = 1
  /\ windowSec \in MainWindowSecs
  /\ genre = "hiphop"
  /\ method \in Methods
  /\ chorusAvail \in BOOLEAN
  /\ EnergyIdle
  /\ ChorusIdle
  /\ MainIdle
  /\ FrameIdle
  /\ SeriesIdle

\* lines 88-102: the first detector the chosen branch calls
CallFirst ==
  /\ pc = "main"
  /\ pc' = IF method = "chorus" /\ chorusAvail THEN "findChorusHook"
           ELSE "findBestHook"
  /\ UNCHANGED <<inputVars, frameVars, seriesVars, energyVars, chorusVars, mainVars>>

\* lines 103-104: auto, if (chorusAvail) b = findChorusHook(...)
CallChorus ==
  /\ pc = "energyDone"
  /\ method \notin {"chorus", "energy"}
  /\ chorusAvail
  /\ pc' = "findChorusHook"
  /\ UNCHANGED <<inputVars, frameVars, seriesVars, energyVars, chorusVars, mainVars>>

\* lines 88-96: argv.method === 'chorus', after the call it made
SelectChorus ==
  /\ method = "chorus"
  /\ pc = IF chorusAvail THEN "chorusDone" ELSE "energyDone"
  /\ chosen' = ForcedChorus(chorusAvail, a, b)
  /\ pc' = "chosen"
  /\ UNCHANGED <<inputVars, frameVars, seriesVars, energyVars, chorusVars, aN, bN, startSec>>

\* lines 97-99: argv.method === 'energy', after findBestHook returned
SelectEnergy ==
  /\ method = "energy"
  /\ pc = "energyDone"
  /\ chosen' = Tag(a, "energy")
  /\ pc' = "chosen"
  /\ UNCHANGED <<inputVars, frameVars, seriesVars, energyVars, chorusVars, aN, bN, startSec>>

\* lines 106-114: auto, after the detectors returned
SelectAuto ==
  /\ method \notin {"chorus", "energy"}
  /\ pc = IF chorusAvail THEN "chorusDone" ELSE "energyDone"
  /\ IF ~chorusAvail        \* if (!b): b is null exactly when chorus is unavailable
     THEN /\ chosen' = TagNorm(a, "energy", One)
          /\ UNCHANGED <<aN, bN>>
     ELSE /\ aN' = NormScore(a)
          /\ bN' = NormScore(b)
          /\ chosen' = AutoChoose(a, b, aN', bN')
  /\ pc' = "chosen"
  /\ UNCHANGED <<inputVars, frameVars, seriesVars, energyVars, chorusVars, startSec>>

\* lines 117-125: guard rails
Guard ==
  /\ pc = "chosen"
  /\ startSec' = GuardRails(chosen.startSec, windowSec, samples, sampleRate)
  /\ pc' = "render"
  /\ UNCHANGED <<inputVars, frameVars, seriesVars, energyVars, chorusVars, aN, bN, chosen>>

NextMain ==
  \/ CallFirst
  \/ EnergyPrepare \/ EnergyScan \/ EnergyReturn
  \/ CallChorus
  \/ ChorusPrepareStep \/ ChorusSearch \/ ChorusReturn
  \/ SelectChorus \/ SelectEnergy \/ SelectAuto
  \/ Guard

SpecMain == InitMain /\ [][NextMain]_vars

(* ------------------------------------------------------------------ *)
(* main, auto branch: the comparison of lines 112-113 on its own       *)
(* ------------------------------------------------------------------ *)
\* normalized scores in hundredths: every 5th, and the two around 0.80 * 1.05
NormGrid == {Rat(k, 100) : k \in {h \in 0..100 : h % 5 = 0} \cup {83, 84}}

InitSelect ==
  /\ pc = "compare"
  /\ aN \in NormGrid
  /\ bN \in NormGrid
  /\ a = [startSec |-> IntR(1), score |-> aN, frameSec |-> One]
  /\ b = [startSec |-> IntR(2), score |-> bN, scoreMin |-> Zero,
          scoreMax |-> One, frameSec |-> One]
  /\ samples = <<>>
  /\ sampleRate = 1
  /\ windowSec = 3
  /\ genre = "hiphop"
  /\ chroma = <<>>
  /\ method = "auto"
  /\ chorusAvail = TRUE
  /\ prep = None /\ i = 0 /\ best = NegInf /\ bestIdx = 0
  /\ cprep = None /\ ci = 0 /\ cst = ChorusScanInit
  /\ chosen = None
  /\ startSec = None
  /\ FrameIdle
  /\ SeriesIdle

\* lines 112-113
Compare ==
  /\ pc = "compare"
  /\ chosen' = AutoChoose(a, b, aN, bN)
  /\ pc' = "chosen"
  /\ UNCHANGED <<inputVars, frameVars, seriesVars, energyVars, chorusVars, aN, bN, startSec>>

NextSelect == Compare

SpecSelect == InitSelect /\ [][NextSelect]_vars

(* ------------------------------------------------------------------ *)
(* Claims about findBestHook (checked under SpecEnergy)                *)
(* ------------------------------------------------------------------ *)
\* the track is shorter than the requested window
TooShort == prep.win > prep.L

\* C1: for every sample buffer, the empty one and a track shorter than the
\* window (win > L) included, findBestHook returns startSec = 0 and score = 0
\* in the degenerate cases and never returns a non-finite score.
C1_DegenerateIsZero ==
  pc = "energyDone" =>
    /\ IsFinite(a.score)
    /\ (Length(samples) = 0 \/ TooShort) => (a.startSec = Zero /\ a.score = Zero)

\* average(score[k..k+win)) + entranceBonus(k), summed directly
C2_Value(k) ==
  RAdd(RDiv(SumTo([j \in 0..(prep.win - 1) |-> prep.scores[k + j]], prep.win),
            IntR(prep.win)),
       IF k > 0 THEN RMul(Rat(1, 5), prep.N[k - 1]) ELSE Zero)

\* k is the smallest start index below n whose value is maximal
C2_FirstMax(k, n) ==
  /\ k \in 0..(n - 1)
  /\ \A j \in 0..(n - 1) : RLe(C2_Value(j), C2_Value(k))
  /\ \A j \in 0..(k - 1) : RLt(C2_Value(j), C2_Value(k))

\* C2: when a window fits (win <= L) the result is startSec = bestIdx * frameSec
\* for the smallest start index in [0, L-win] whose value average + entrance
\* bonus is maximal, the score is that maximum, and after every iteration of
\* the start-to-end scan the best so far is the first maximum of the windows seen.
C2_FirstMaximalWindow ==
  /\ (pc = "scan" /\ i > 0) =>
       /\ C2_FirstMax(bestIdx, i)
       /\ best = C2_Value(bestIdx)
  /\ (pc = "energyDone" /\ ~TooShort) =>
       /\ C2_FirstMax(bestIdx, prep.L - prep.win + 1)
       /\ a.startSec = RMul(IntR(bestIdx), Rat(nextPow2(2) \div 2, sampleRate))
       /\ a.score = C2_Value(bestIdx)

\* C2 witness: several windows fit, the winner is not the first one and it
\* carries a non-zero entrance bonus
C2_Witness ==
  /\ pc = "energyDone"
  /\ prep.L - prep.win >= 2
  /\ bestIdx > 0
  /\ a.startSec # Zero
  /\ prep.N[bestIdx - 1] # Zero

(* ------------------------------------------------------------------ *)
(* Claims about the chorus detector (checked under SpecChorus)         *)
(* ------------------------------------------------------------------ *)
ChorusPrepared == pc \in {"search", "chorusDone"}

InMatrix(r, c) == r \in 0..(cprep.N - 1) /\ c \in 0..(cprep.N - 1)

\* C6: a lag stripe of frame k (forward k -> k+d, backward k -> k-d) is counted
\* only if all W of its cells lie inside the N x N matrix, so that no cell
\* safeCell reads as 0 for being out of range enters a counted stripe.
C6_CountedStripesFit ==
  ChorusPrepared =>
    LET W == StripeLength(cprep.S, cprep.w)
        lp == LagParams(cprep.opts)
    IN  \A k \in 0..(cprep.N - 1) :
          /\ \A d \in ForwardLags(k, cprep.N, W, lp) :
               \A j \in 0..(W - 1) : InMatrix(k + j, k + d + j)
          /\ \A d \in BackwardLags(k, cprep.N, W, lp) :
               \A j \in 0..(W - 1) : InMatrix(k + j, k - d + j)

\* C7: selfSimilarity(C) is symmetric and every diagonal entry is 1, for every
\* chroma sequence, frames with the zero chroma vector included.
C7_SymmetricUnitDiagonal ==
  ChorusPrepared =>
    \A r \in 0..(cprep.N - 1) :
      /\ cprep.S[r][r] = One
      /\ \A c \in 0..(cprep.N - 1) : cprep.S[r][c] = cprep.S[c][r]

\* the hop of the chroma frames, in samples
ChromaHop == stftMag(samples, sampleRate, Rat(464, 10000), Rat(1, 2)).H

\* C8: the frame step chromaSeries returns is the time between the starts of
\* consecutive frames, H / sampleRate, so that startSec = bestIdx * frameStep
\* is the offset of the first sample of the winning frame.
C8_FrameStepIsHop ==
  /\ ChorusPrepared => cprep.frameSec = Rat(ChromaHop, sampleRate)
  /\ pc = "chorusDone" =>
       b.startSec = Rat(cst.bestIdx * ChromaHop, sampleRate)

\* the buffer does not hold one full chroma frame
NoFullChromaFrame ==
  Length(samples) < stftMag(samples, sampleRate, Rat(464, 10000), Rat(1, 2)).N

\* C9: findChorusHook returns the safe default (startSec 0, score 0,
\* scoreMin 0, scoreMax 1) when the track is too short for a full chroma
\* frame, the empty buffer included, or every window score is non-finite.
C9_ShortTrackSafeDefault ==
  (/\ pc = "chorusDone"
   /\ \/ NoFullChromaFrame
      \/ \A k \in 0..(Length(cprep.R) - cprep.W) : ~IsFinite(ChorusWindow(cprep, k)))
  => /\ b.startSec = Zero
     /\ b.score = Zero
     /\ b.scoreMin = Zero
     /\ b.scoreMax = One

\* mean of the smoothed repetition series over [k, k+W), summed directly
C10_Mean(k) ==
  RDiv(SumTo([j \in 0..(cprep.W - 1) |-> cprep.R[k + j]], cprep.W), IntR(cprep.W))

\* the candidate starts of the windowed search
C10_Starts == 0..(cprep.N - cprep.W)

\* max(8, floor(windowSec / frameSec))
C10_Requested == Max(8, RFloor(RDiv(IntR(windowSec), cprep.frameSec)))

\* C10 as claimed: the window is max(8, floor(windowSec / frameStep)) frames,
\* never fewer than 8, for the stripes and for the search.
C10_WindowAtLeast8 ==
  ChorusPrepared =>
    /\ cprep.W = C10_Requested
    /\ StripeLength(cprep.S, cprep.w) = C10_Requested
    /\ cprep.W >= 8

\* C10 (amended): the window is min(max(8, floor(windowSec / frameSec)), N)
\* frames for the stripes and for the search, with N >= 1 the number of chroma
\* frames; the result is the smallest start k with k + W <= N that maximizes the
\* mean of the smoothed repetition series over [k, k+W), and scoreMin, scoreMax
\* are the minimum and maximum of the candidate means.
C10_ClampedWindowFirstMax ==
  /\ ChorusPrepared =>
       /\ cprep.N >= 1
       /\ cprep.W = Min(C10_Requested, cprep.N)
       /\ StripeLength(cprep.S, cprep.w) = Min(C10_Requested, cprep.N)
  /\ pc = "chorusDone" =>
       /\ cst.bestIdx \in C10_Starts
       /\ \A k \in C10_Starts : RLe(C10_Mean(k), C10_Mean(cst.bestIdx))
       /\ \A k \in 0..(cst.bestIdx - 1) : RLt(C10_Mean(k), C10_Mean(cst.bestIdx))
       /\ b.startSec = RMul(IntR(cst.bestIdx), cprep.frameSec)
       /\ b.score = C10_Mean(cst.bestIdx)
       /\ \E k \in C10_Starts : b.scoreMin = C10_Mean(k)
       /\ \E k \in C10_Starts : b.scoreMax = C10_Mean(k)
       /\ \A k \in C10_Starts :
            RLe(b.scoreMin, C10_Mean(k)) /\ RLe(C10_Mean(k), b.scoreMax)

\* C10 witness: at least 8 frames per window, several candidate windows with
\* different means, and the winner is not the first one
C10_Witness ==
  /\ pc = "chorusDone"
  /\ cprep.W >= 8
  /\ cprep.N > cprep.W
  /\ cst.bestIdx > 0
  /\ b.startSec # Zero
  /\ b.scoreMin # b.scoreMax

(* ------------------------------------------------------------------ *)
(* Claims about method selection (checked under SpecMain, SpecSelect)  *)
(* ------------------------------------------------------------------ *)
Selected == pc \in {"chosen", "render"}

\* the values of the candidate windows of the energy scan
EnergyScanValues == {WindowValue(prep, k) : k \in 0..(prep.L - prep.win)}

\* the means of the candidate windows of the chorus search
ChorusScanValues ==
  {ChorusWindow(cprep, k) : k \in 0..(Length(cprep.R) - cprep.W)}

SetMin(V) == CHOOSE x \in V : \A y \in V : RLe(x, y)
SetMax(V) == CHOOSE x \in V : \A y \in V : RLe(y, x)

\* the candidate values are finite and not all equal
HasRange(V) == V # {} /\ (\A x \in V : IsFinite(x)) /\ SetMin(V) # SetMax(V)

\* (score - min) / (max - min) over the candidate values V
OwnRange(score, V) == RDiv(RSub(score, SetMin(V)), RSub(SetMax(V), SetMin(V)))

\* C3: in auto mode with both results, each method's winning score is
\* normalized with the minimum and maximum of that method's own candidate
\* windows: aN = (a.score - energyScanMin) / (energyScanMax - energyScanMin),
\* and bN likewise over the chorus search, both in [0, 1].
C3_OwnRangeNormalization ==
  (Selected /\ method = "auto" /\ chorusAvail) =>
    /\ HasRange(EnergyScanValues) =>
         /\ aN = OwnRange(a.score, EnergyScanValues)
         /\ RLe(Zero, aN) /\ RLe(aN, One)
    /\ HasRange(ChorusScanValues) =>
         /\ bN = OwnRange(b.score, ChorusScanValues)
         /\ RLe(Zero, bN) /\ RLe(bN, One)

IsTagged(c, r, m) ==
  /\ c.method = m
  /\ DOMAIN r \subseteq DOMAIN c
  /\ \A f \in DOMAIN r : c[f] = r[f]

\* C5: forced 'energy' gives findBestHook's result tagged 'energy'; forced
\* 'chorus' gives findChorusHook's result tagged 'chorus' when the detector is
\* available and findBestHook's result tagged 'energy' when it is not; auto
\* without the detector gives the energy result; the chosen result's tag
\* always names the strategy its startSec comes from.
C5_ForcedAndFallback ==
  Selected =>
    /\ method = "energy" => IsTagged(chosen, a, "energy") /\ b = None
    /\ (method = "chorus" /\ chorusAvail) =>
         IsTagged(chosen, b, "chorus") /\ a = None
    /\ (method = "chorus" /\ ~chorusAvail) =>
         IsTagged(chosen, a, "energy") /\ b = None
    /\ (method = "auto" /\ ~chorusAvail) =>
         IsTagged(chosen, a, "energy") /\ b = None
    /\ chosen.method \in {"energy", "chorus"}
    /\ chosen.method = "energy" => chosen.startSec = a.startSec
    /\ chosen.method = "chorus" => chosen.startSec = b.startSec

C5_Witness ==
  /\ pc = "chosen"
  /\ method = "chorus"
  /\ ~chorusAvail
  /\ chosen.method = "energy"
  /\ Length(samples) = MaxMainSamples
  /\ chosen.startSec # Zero

(* ------------------------------------------------------------------ *)
(* Claims about the repetition series (checked under SpecChorus)       *)
(* ------------------------------------------------------------------ *)
InUnit(x) == IsFinite(x) /\ RLe(Zero, x) /\ RLe(x, One)

\* the series repetitionScore computes before and after its normalization
RepetitionRaw ==
  RawRepetition(cprep.S, StripeLength(cprep.S, cprep.w), LagParams(cprep.opts),
                cprep.opts.bidirectional)

RepetitionNormalized == repetitionScore(cprep.S, cprep.w, cprep.opts)

NoValidLag(k) ==
  LET W == StripeLength(cprep.S, cprep.w)
      lp == LagParams(cprep.opts)
  IN  ForwardLags(k, cprep.N, W, lp) \cup BackwardLags(k, cprep.N, W, lp) = {}

IsConstant(x) == \A j, k \in DOMAIN x : x[j] = x[k]

\* C11: every entry of the series repetitionScore returns lies in [0,1] (all
\* entries are 0 when the raw series is constant), a frame with no valid lag
\* has raw score 0, and the series still lies in [0,1] after smooth1D.
C11_RepetitionInUnit ==
  (ChorusPrepared /\ cprep.N >= 1) =>
    /\ Length(RepetitionNormalized) = cprep.N
    /\ \A k \in 0..(cprep.N - 1) :
         /\ InUnit(RepetitionNormalized[k])
         /\ NoValidLag(k) => RepetitionRaw[k] = Zero
         /\ IsConstant(RepetitionRaw) => RepetitionNormalized[k] = Zero
    /\ cprep.R = smooth1D(RepetitionNormalized, 5)
    /\ \A k \in DOMAIN cprep.R : InUnit(cprep.R[k])

\* C11 witness: frames without and with valid lags, a raw series that is
\* not constant, and a smoothed value strictly between 0 and 1
C11_Witness ==
  /\ pc = "chorusDone"
  /\ \E k \in 0..(cprep.N - 1) : NoValidLag(k)
  /\ \E k \in 0..(cprep.N - 1) : ~NoValidLag(k) /\ RepetitionRaw[k] # Zero
  /\ ~IsConstant(RepetitionRaw)
  /\ \E k \in DOMAIN cprep.R : RLt(Zero, cprep.R[k]) /\ RLt(cprep.R[k], One)

(* ------------------------------------------------------------------ *)
(* extractAllFeatures and stftMag: the frame grid, frame by frame      *)
(* ------------------------------------------------------------------ *)
\* The frame loop is followed on the working buffer and the zero crossing rate,
\* which are exact on every frame; energy, centroid and flux go through
\* Math.sqrt and fft.js and are followed in findBestHook's specification.
MaxFrameSamples == 6
FrameAmplitudes == {IntR(-1), Zero, One}
FrameRates == {1, 30, 45, 80}
FrameSecs == {Rat(1, 10), Rat(464, 10000)}

FrameBuffers ==
  UNION {[0..(n - 1) -> FrameAmplitudes] : n \in 0..MaxFrameSamples}

\* new Float32Array(n)
Zeros(n) == [k \in 0..(n - 1) |-> Zero]

InitFrames ==
  /\ pc = "extractAllFeatures"
  /\ samples \in FrameBuffers
  /\ sampleRate \in FrameRates
  /\ frameSec \in FrameSecs
  /\ fx = None /\ fi = 0 /\ frame = <<>> /\ fz = <<>> /\ stft = None
  /\ windowSec = 3
  /\ genre = "hiphop"
  /\ chroma = <<>>
  /\ method = "energy"
  /\ chorusAvail = TRUE
  /\ EnergyIdle
  /\ ChorusIdle
  /\ MainIdle
  /\ SeriesIdle

\* energy.js lines 62-85: sizes and preallocated arrays
FrameSetup ==
  /\ pc = "extractAllFeatures"
  /\ fx' = [frameSize |-> FrameSize(sampleRate, frameSec),
            hop |-> FrameSize(sampleRate, frameSec) \div 2,
            nFrames |-> FrameCount(Length(samples),
                                   FrameSize(sampleRate, frameSec),
                                   FrameSize(sampleRate, frameSec) \div 2)]
  /\ fz' = Zeros(fx'.nFrames)
  /\ frame' = Zeros(fx'.frameSize)
  /\ fi' = 0
  /\ pc' = "frameLoop"
  /\ UNCHANGED <<inputVars, frameSec, stft, energyVars, chorusVars, mainVars,
                 seriesVars>>

\* energy.js lines 87-92 and 101-122: one iteration of the frame loop
FrameStep ==
  /\ pc = "frameLoop"
  /\ fi < fx.nFrames
  /\ frame' = FrameAt(samples, fi * fx.hop, fx.frameSize)
  /\ fz' = [fz EXCEPT ![fi] = FrameZcr(frame')]
  /\ fi' = fi + 1
  /\ UNCHANGED <<pc, inputVars, frameSec, fx, stft, energyVars, chorusVars,
                 mainVars, seriesVars>>

\* energy.js lines 167-173: the loop is over, the series are returned
FrameReturn ==
  /\ pc = "frameLoop"
  /\ ~(fi < fx.nFrames)
  /\ pc' = "stftMag"
  /\ UNCHANGED <<inputVars, frameVars, energyVars, chorusVars, mainVars,
                 seriesVars>>

\* sections.js lines 45-50: the frame grid of stftMag on the same track
StftSetup ==
  /\ pc = "stftMag"
  /\ stft' = stftMag(samples, sampleRate, frameSec, Rat(1, 2))
  /\ pc' = "framesDone"
  /\ UNCHANGED <<inputVars, frameSec, fx, fi, frame, fz, energyVars, chorusVars,
                 mainVars, seriesVars>>

NextFrames == FrameSetup \/ FrameStep \/ FrameReturn \/ StftSetup

SpecFrames == InitFrames /\ [][NextFrames]_vars

(* ------------------------------------------------------------------ *)
(* Claims about extractAllFeatures (checked under SpecEnergy)          *)
(* ------------------------------------------------------------------ *)
FeatureNames == {"energy", "centroid", "zcr", "spectralFlux", "novelty"}

\* the sum of the squares of the samples of smp inside [start, start + frameSize)
InRangeSquares(smp, start, frameSize) ==
  SumOver([j \in DOMAIN smp |-> RMul(smp[j], smp[j])],
          {j \in DOMAIN smp : j >= start /\ j < start + frameSize})

\* the five series of r have nFrames entries, and the energy of every frame is
\* the RMS of frameSize samples of which those past the end of smp are 0
C12_Shape(r, smp) ==
  LET nFrames == Max(1, ((Length(smp) - r.frameSize) \div r.hop) + 1)
  IN  /\ nFrames >= 1
      /\ r.nFrames = nFrames
      /\ \A name \in FeatureNames :
           /\ DOMAIN r.features[name] = 0..(nFrames - 1)
           /\ \A k \in 0..(nFrames - 1) : IsFinite(r.features[name][k])
      /\ \A k \in 0..(nFrames - 1) :
           RMul(r.features.energy[k], r.features.energy[k])
             = RDiv(InRangeSquares(smp, k * r.hop, r.frameSize), IntR(r.frameSize))

\* C12: extractAllFeatures returns energy, centroid, zcr, spectralFlux and
\* novelty, all of length nFrames = max(1, floor((numSamples - frameSize) / hop) + 1)
\* >= 1, for the empty buffer and a buffer shorter than one frame too; samples
\* read past the end of the buffer count as 0 and no value is undefined.
C12_FeatureLengths ==
  pc = "energyDone" =>
    /\ C12_Shape(extractAllFeatures(samples, sampleRate, Rat(1, 10)), samples)
    /\ prep.L = Max(1, Length(samples) - 1)

\* C12 witness: a buffer shorter than one frame has been analysed, so that the
\* single frame read past its end
C12_Witness ==
  /\ pc = "energyDone"
  /\ Length(samples) = 1
  /\ Length(samples) < FrameSize(sampleRate, Rat(1, 10))
  /\ prep.L = 1

(* ------------------------------------------------------------------ *)
(* findBestHook on a quiet track with one loud burst                   *)
(* ------------------------------------------------------------------ *)
MaxBurstSamples == 14
BurstRates == {1, 2}
BurstWindowSecs == {3, 4, 6, 8}

\* Quiet everywhere except the samples p..q.  The quiet level is the lowest
\* amplitude of the exact arithmetic; normalize maps the features of the quiet
\* frames to 0, as it does for digital silence.
BurstSignal(n, p, q) ==
  [j \in 0..(n - 1) |-> IF j >= p /\ j <= q THEN One ELSE Rat(1, 7)]

InitBurst ==
  /\ pc = "findBestHook"
  /\ \E n \in 2..MaxBurstSamples : \E p \in 0..(n - 1) : \E q \in p..(n - 1) :
       samples = BurstSignal(n, p, q)
  /\ sampleRate \in BurstRates
  /\ windowSec \in BurstWindowSecs
  /\ genre \in Genres
  /\ chroma = <<>>
  /\ method = "energy"
  /\ chorusAvail = TRUE
  /\ EnergyIdle
  /\ ChorusIdle
  /\ MainIdle
  /\ FrameIdle
  /\ SeriesIdle

SpecBurst == InitBurst /\ [][NextEnergy]_vars

(* ------------------------------------------------------------------ *)
(* Claims about the burst (checked under SpecBurst)                    *)
(* ------------------------------------------------------------------ *)
\* const windowSize = 5 of computeNovelty: the reach of an onset in frames
NoveltyReach == 5

IsBurst(p, q) ==
  /\ p \in DOMAIN samples /\ q \in DOMAIN samples /\ p <= q
  /\ samples = BurstSignal(Length(samples), p, q)

BurstHop == FrameSize(sampleRate, Rat(1, 10)) \div 2

\* the frames that start inside the burst
BurstFrames(p, q) ==
  {k \in 0..(prep.L - 1) : k * BurstHop >= p /\ k * BurstHop <= q}

\* the window fits the track, is at least as long as the burst and exceeds it
\* by the reach of the novelty smoothing
WideEnough(p, q) ==
  /\ BurstFrames(p, q) # {}
  /\ prep.win <= prep.L
  /\ prep.win >= Cardinality(BurstFrames(p, q)) + NoveltyReach

MaxSeriesLen == 5
MaxLongLen == 12
SeriesValues == {IntR(-1), Zero, IntR(2)}
SeriesFrameSecs == {One, IntR(2)}
SeriesWindowSecs == {1, 2, 3}

\* short series over three values, and 0/1 series longer than the 11 frames a
\* smoothing window of computeNovelty spans
ShortSeries == UNION {[0..(n - 1) -> SeriesValues] : n \in 0..MaxSeriesLen}
LongSeries ==
  UNION {[0..(n - 1) -> {Zero, One}] : n \in (MaxLongLen - 1)..MaxLongLen}

InitSeries ==
  /\ pc = "series"
  /\ \/ series \in ShortSeries /\ frameSec \in SeriesFrameSecs
        /\ windowSec \in SeriesWindowSecs
     \/ series \in LongSeries /\ frameSec = One /\ windowSec = 3
  /\ out = None
  /\ bw = None
  /\ samples = <<>>
  /\ sampleRate = 1
  /\ genre = "hiphop"
  /\ chroma = <<>>
  /\ method = "energy"
  /\ chorusAvail = TRUE
  /\ fx = None /\ fi = 0 /\ frame = <<>> /\ fz = <<>> /\ stft = None
  /\ EnergyIdle
  /\ ChorusIdle
  /\ MainIdle

seriesRest == <<inputVars, frameVars, energyVars, chorusVars, mainVars, series>>

\* energy.js lines 294-306: normalize(arr)
CallNormalize ==
  /\ pc = "series"
  /\ out' = normalize(series)
  /\ pc' = "normalized"
  /\ UNCHANGED <<seriesRest, bw>>

\* energy.js lines 177-202: computeNovelty(series)
CallNovelty ==
  /\ pc = "series"
  /\ out' = computeNovelty(series)
  /\ pc' = "novelty"
  /\ UNCHANGED <<seriesRest, bw>>

\* energy.js lines 381-382: win, bestSum, bestIdx, curr
BestWindowStart ==
  /\ pc = "series"
  /\ bw' = [win |-> Max(1, RRound(RDiv(IntR(windowSec), frameSec))),
            i |-> 0, curr |-> Zero, bestSum |-> NegInf, bestIdx |-> 0]
  /\ pc' = "bestWindow"
  /\ UNCHANGED <<seriesRest, out>>

\* energy.js lines 383-390: one iteration of the loop
BestWindowStep ==
  /\ pc = "bestWindow"
  /\ bw.i < Length(series)
  /\ bw' = BestWindowLoop(series, bw)
  /\ UNCHANGED <<pc, seriesRest, out>>

\* energy.js line 391: return bestIdx * frameSec
BestWindowReturn ==
  /\ pc = "bestWindow"
  /\ ~(bw.i < Length(series))
  /\ out' = RMul(IntR(bw.bestIdx), frameSec)
  /\ pc' = "windowDone"
  /\ UNCHANGED <<seriesRest, bw>>

NextSeries ==
  \/ CallNormalize
  \/ CallNovelty
  \/ BestWindowStart
  \/ BestWindowStep
  \/ BestWindowReturn

SpecSeries == InitSeries /\ [][NextSeries]_vars

(* ------------------------------------------------------------------ *)
(* Claims about the series utilities (checked under SpecSeries)        *)
(* ------------------------------------------------------------------ *)
\* series[k] + ... + series[k + n - 1], summed directly
WindowSum(k, n) == SumTo([j \in 0..(n - 1) |-> series[k + j]], n)

\* the window starts bestWindowStartSec can return for a series of n >= win entries
C14_Starts == 0..(Length(series) - bw.win)

\* k is the first start whose window sum is maximal
C14_FirstMax(k) ==
  /\ k \in C14_Starts
  /\ \A j \in C14_Starts : RLe(WindowSum(j, bw.win), WindowSum(k, bw.win))
  /\ \A j \in C14_Starts : j < k => RLt(WindowSum(j, bw.win), WindowSum(k, bw.win))

\* C14: for a series of n >= win entries, win = max(1, round(windowSec / frameSec)),
\* bestWindowStartSec returns frameSec times the smallest start in [0, n - win]
\* whose window sum is maximal, as an exhaustive search does; after the
\* iteration for index i its running sum is the sum of the last min(i + 1, win)
\* entries.
C14_SlidingWindowFirstMax ==
  /\ pc \in {"bestWindow", "windowDone"} =>
       /\ bw.win = Max(1, RRound(RDiv(IntR(windowSec), frameSec)))
       /\ bw.curr = WindowSum(bw.i - Min(bw.i, bw.win), Min(bw.i, bw.win))
  /\ (pc = "windowDone" /\ Length(series) >= bw.win) =>
       /\ C14_FirstMax(bw.bestIdx)
       /\ bw.bestSum = WindowSum(bw.bestIdx, bw.win)
       /\ out = RMul(IntR(bw.bestIdx), frameSec)

\* C14 witness: windows of several entries, more than one of them maximal, and
\* the first maximal one does not start the series
C14_Witness ==
  /\ pc = "windowDone"
  /\ bw.win >= 2
  /\ Length(series) > bw.win
  /\ bw.bestIdx > 0
  /\ \E j \in C14_Starts : j > bw.bestIdx /\ WindowSum(j, bw.win) = bw.bestSum
  /\ out # Zero

\* the smallest and the largest entry of a non-empty series
IsMinOf(x, v) == (\E k \in DOMAIN x : x[k] = v) /\ \A k \in DOMAIN x : RLe(v, x[k])
IsMaxOf(x, v) == (\E k \in DOMAIN x : x[k] = v) /\ \A k \in DOMAIN x : RLe(x[k], v)

\* C15: normalize maps a series into [0,1], entry by entry and order
\* preserving, with the minimum at 0 and the maximum at 1 when the series is
\* not constant; a constant series (range 0, treated as 1) becomes all zeros,
\* and normalizing that result again returns the same all-zero series.
C15_NormalizeUnit ==
  pc = "normalized" =>
    /\ DOMAIN out = DOMAIN series
    /\ \A k \in DOMAIN out : InUnit(out[k])
    /\ \A j, k \in DOMAIN out : RLe(series[j], series[k]) <=> RLe(out[j], out[k])
    /\ ~IsConstant(series) =>
         \A k \in DOMAIN series :
           /\ IsMinOf(series, series[k]) <=> out[k] = Zero
           /\ IsMaxOf(series, series[k]) <=> out[k] = One
    /\ IsConstant(series) =>
         /\ \A k \in DOMAIN out : out[k] = Zero
         /\ normalize(out) = out

\* C15 witness: a series with three different values, none of them 0 at the
\* minimum, has been normalized
C15_Witness ==
  /\ pc = "normalized"
  /\ \E j, k, l \in DOMAIN series :
       /\ RLt(series[j], series[k]) /\ RLt(series[k], series[l])
       /\ series[j] # Zero
       /\ out[j] = Zero /\ out[l] = One
       /\ RLt(Zero, out[k]) /\ RLt(out[k], One)

\* a constant series that is not all zeros has been normalized
C15_ConstantSeen ==
  /\ pc = "normalized"
  /\ Length(series) >= 2
  /\ IsConstant(series)
  /\ series[0] # Zero

(* ------------------------------------------------------------------ *)
(* Claims about the frame grid and the ZCR (checked under SpecFrames)  *)
(* ------------------------------------------------------------------ *)
FramesSized == pc \in {"frameLoop", "stftMag", "framesDone"}

\* the frame the last iteration of the frame loop worked on, DC removed
LastFrameNoDC ==
  [j \in DOMAIN frame |->
     RSub(frame[j], RDiv(SumTo(frame, Length(frame)), IntR(Length(frame))))]

\* positions j whose sample and the sample just before it have classified signs
\* that are both non-zero and differ
AdjacentCrossings(d) ==
  {j \in 1..(Length(d) - 1) :
     sgn(d[j - 1]) # 0 /\ sgn(d[j]) # 0 /\ sgn(d[j - 1]) # sgn(d[j])}

\* positions j whose sign is non-zero and differs from the sign of the nearest
\* earlier sample outside the dead zone, with only dead-zone samples in between
SeparatedCrossings(d) ==
  {j \in 2..(Length(d) - 1) :
     /\ sgn(d[j]) # 0 /\ sgn(d[j - 1]) = 0
     /\ \E h \in 0..(j - 2) :
          /\ sgn(d[h]) # 0 /\ sgn(d[h]) # sgn(d[j])
          /\ \A g \in (h + 1)..(j - 1) : sgn(d[g]) = 0}

FrameDone == pc = "frameLoop" /\ fi > 0

\* C16: a zero crossing is counted only between two consecutive samples of the
\* DC-removed frame whose classified signs are both non-zero and differ, so a
\* sign change across one or more dead-zone samples is not counted;
\* zcr = crossings / (frameSize - 1), in [0,1].
C16_AdjacentCrossingsOnly ==
  FrameDone =>
    /\ fz[fi - 1] = Rat(Cardinality(AdjacentCrossings(LastFrameNoDC)),
                        fx.frameSize - 1)
    /\ InUnit(fz[fi - 1])

\* C16, amended: a crossing is counted at every sample whose classified sign is
\* non-zero and differs from the sign of the nearest earlier sample outside the
\* dead zone, whether the two are adjacent or separated by dead-zone samples;
\* zcr = crossings / (frameSize - 1), in [0,1].
C16_CountsAcrossDeadZone ==
  FrameDone =>
    /\ fz[fi - 1] = Rat(Cardinality(AdjacentCrossings(LastFrameNoDC))
                          + Cardinality(SeparatedCrossings(LastFrameNoDC)),
                        fx.frameSize - 1)
    /\ InUnit(fz[fi - 1])

\* C16 witness: a frame with a sign change between adjacent samples and one
\* across a dead-zone sample
C16_Witness ==
  /\ FrameDone
  /\ AdjacentCrossings(LastFrameNoDC) # {}
  /\ SeparatedCrossings(LastFrameNoDC) # {}
  /\ fz[fi - 1] # Zero

(* ------------------------------------------------------------------ *)
(* Claims about the smoothing windows                                  *)
(* ------------------------------------------------------------------ *)
\* the indices of x within r positions of k
Around(x, k, r) == {j \in DOMAIN x : j >= k - r /\ j <= k + r}

\* centered moving average of radius r, averaged over the indices in range
CenteredMean(x, r) ==
  [k \in DOMAIN x |->
     RDiv(SumOver(x, Around(x, k, r)), IntR(Cardinality(Around(x, k, r))))]

\* C17 (checked under SpecChorus): findChorusHook smooths the normalized
\* repetition series with a centered moving average of radius 5 (indices
\* i-5..i+5 clipped to the series, up to 11 values), the window and edge policy
\* of computeNovelty.
C17_SmoothRadius5 ==
  ChorusPrepared => cprep.R = CenteredMean(RepetitionNormalized, NoveltyReach)

\* what smooth1D(x, 5) computes: radius floor(5 / 2) = 2, up to 5 values
C17_SmoothRadius2 ==
  ChorusPrepared => cprep.R = CenteredMean(RepetitionNormalized, 2)

\* raw[0] = 0, raw[i] = max(0, series[i] - series[i-1])
RawNovelty ==
  [k \in DOMAIN series |->
     IF k = 0 \/ RLe(series[k], series[k - 1]) THEN Zero
     ELSE RSub(series[k], series[k - 1])]

\* C18 (checked under SpecSeries): computeNovelty returns a series of the
\* length of its argument with out[i] = mean of raw[j] over the indices j in
\* [max(0, i-5), min(L-1, i+5)], a window that never leaves the series, where
\* raw[0] = 0 and raw[i] = max(0, series[i] - series[i-1]); no output is negative.
C18_NoveltyIsClippedMean ==
  pc = "novelty" =>
    /\ DOMAIN out = DOMAIN series
    /\ out = CenteredMean(RawNovelty, NoveltyReach)
    /\ \A k \in DOMAIN out :
         /\ IsFinite(out[k]) /\ RLe(Zero, out[k])
         /\ Around(series, k, NoveltyReach)
              = Max(0, k - 5)..Min(Length(series) - 1, k + 5)

\* C18 witness: a series with a rise and a fall, long enough for a window of
\* 11 values and for a window clipped at the end
C18_Witness ==
  /\ pc = "novelty"
  /\ \E k \in DOMAIN series :
       /\ Cardinality(Around(series, k, NoveltyReach)) = 11
       /\ RLt(Zero, out[k])
  /\ \E k \in DOMAIN series : k > 0 /\ RLt(series[k], series[k - 1])
  /\ \E k \in DOMAIN series : k > 0 /\ RLt(series[k - 1], series[k])
  /\ out[0] # out[Length(series) - 1]

\* the powers of two up to 64
PowersOfTwo == {1, 2, 4, 8, 16, 32, 64}

\* p is the smallest power of two that is >= x and >= 2
IsSmallestPow2AtLeast(p, x) ==
  /\ p \in PowersOfTwo /\ p >= 2 /\ RLe(x, IntR(p))
  /\ \A r \in PowersOfTwo : (r >= 2 /\ RLe(x, IntR(r))) => p <= r

\* C19 (checked under SpecFrames): the frame length of extractAllFeatures and
\* of stftMag is the smallest power of two that is >= sampleRate * frameDurationSec
\* and >= 2, for every sample rate and frame duration, a product that is not
\* an integer included.
C19_FrameLengthCoversDuration ==
  /\ FramesSized =>
       IsSmallestPow2AtLeast(fx.frameSize, RMul(IntR(sampleRate), frameSec))
  /\ pc = "framesDone" =>
       IsSmallestPow2AtLeast(stft.N, RMul(IntR(sampleRate), frameSec))

\* what the code computes: the smallest power of two >= max(2, floor(product))
C19_FrameLengthCoversFloor ==
  /\ FramesSized =>
       IsSmallestPow2AtLeast(fx.frameSize,
                             IntR(RFloor(RMul(IntR(sampleRate), frameSec))))
  /\ pc = "framesDone" =>
       IsSmallestPow2AtLeast(stft.N,
                             IntR(RFloor(RMul(IntR(sampleRate), frameSec))))

(* ------------------------------------------------------------------ *)
(* Claims about the chorus score range (checked under SpecMain)        *)
(* ------------------------------------------------------------------ *)
\* findChorusHook has returned to main
ChorusReturned ==
  /\ chorusAvail
  /\ \/ pc = "chorusDone"
     \/ pc \in {"chosen", "render"} /\ method # "energy"

\* main has normalized both scores (auto mode, chorus detector available)
AutoCompared == pc \in {"chosen", "render"} /\ method = "auto" /\ chorusAvail

\* C20: every result of findChorusHook has scoreMin <= score <= scoreMax, and a
\* result that is not the safe default has score = scoreMax; hence the bN main
\* computes in auto mode is exactly 1 when scoreMax > scoreMin and exactly 0
\* when they are equal, never strictly between.
C20_ChorusScoreIsRangeMax ==
  /\ ChorusReturned =>
       /\ RLe(b.scoreMin, b.score) /\ RLe(b.score, b.scoreMax)
       /\ b # ChorusDefault(b.frameSec) => b.score = b.scoreMax
  /\ AutoCompared =>
       /\ RGt(b.scoreMax, b.scoreMin) => bN = One
       /\ b.scoreMax = b.scoreMin => bN = Zero
       /\ bN \in {Zero, One}

\* C20 witness: auto mode on a track whose candidate windows differ, so that
\* the range is not collapsed and bN = 1
C20_Witness ==
  /\ AutoCompared
  /\ cprep.N > cprep.W
  /\ RGt(b.scoreMax, b.scoreMin)
  /\ RGt(b.scoreMin, Zero)
  /\ bN = One

(* ------------------------------------------------------------------ *)
(* Claims about the guard rails (checked under SpecMain)               *)
(* ------------------------------------------------------------------ *)
\* mono.length / sampleRate
TrackDuration == Rat(Length(samples), sampleRate)

\* the clip [start, start + duration] ends inside the track
ClipFits(start) == RLe(RAdd(start, IntR(windowSec)), TrackDuration)

\* C21: the start time main passes to renderClip is >= 0; the clip ends
\* inside the track whenever the duration is at most the track duration; and
\* a start time that already fits is passed unchanged.
C21_ClipInsideTrack ==
  pc = "render" =>
    /\ RLe(Zero, startSec)
    /\ RLe(IntR(windowSec), TrackDuration) => ClipFits(startSec)
    /\ ClipFits(chosen.startSec) => startSec = chosen.startSec

\* C21 witness: a detector's start time that does not fit a track long
\* enough for the clip, moved by the guard rails
C21_Witness ==
  /\ pc = "render"
  /\ RLe(IntR(windowSec), TrackDuration)
  /\ ~ClipFits(chosen.startSec)
  /\ startSec # chosen.startSec
  /\ ClipFits(startSec)

\* the guard rails leave a fitting non-zero start time alone
C21_FittingSeen ==
  /\ pc = "render"
  /\ RGt(chosen.startSec, Zero)
  /\ ClipFits(chosen.startSec)
  /\ startSec = chosen.startSec

(* ------------------------------------------------------------------ *)
(* energy.js : legacy feature extraction (useUnifiedExtraction = false) *)
(* ------------------------------------------------------------------ *)
\* RMS per frame; the step it reports is frame / sampleRate
rmsSeries(smp, rate, frameDur) ==
  LET frameLen == nextPow2(Max(2, RFloor(RMul(IntR(rate), frameDur))))
      hop == frameLen \div 2
      n == Max(1, ((Length(smp) - frameLen) \div hop) + 1)
  IN  [series |-> [k \in 0..(n - 1) |-> FrameEnergy(FrameAt(smp, k * hop, frameLen))],
       frameSec |-> Rat(frameLen, rate)]

spectralCentroid(smp, rate, frameDur) ==
  extractAllFeatures(smp, rate, frameDur).features.centroid

\* the unified extractor's ZCR series, on the grid of the frame duration given
ZcrOf(result, rate) ==
  [ratio |-> result.features.zcr,
   perSec |-> [k \in DOMAIN result.features.zcr |->
                 RDiv(RMul(result.features.zcr[k], IntR(rate)),
                      IntR(result.frameSize))],
   frameSec |-> Rat(result.frameSize, rate)]

zeroCrossingRate(smp, rate, frameDur) ==
  ZcrOf(extractAllFeatures(smp, rate, frameDur), rate)

noveltyScore(energy) == computeNovelty(energy)

\* features = { energy, centroid, zcr: zcrRatio, novelty }; frameSec = energyStep
LegacySeries(rms, centroid, zcr) ==
  [features |-> [energy |-> rms.series, centroid |-> centroid,
                 zcr |-> zcr.ratio, novelty |-> noveltyScore(rms.series)],
   frameSec |-> rms.frameSec]

\* lines 270-276: the legacy multi-pass extraction
LegacyExtract(smp, rate) ==
  LegacySeries(rmsSeries(smp, rate, Rat(1, 10)),
               spectralCentroid(smp, rate, Rat(1, 10)),
               zeroCrossingRate(smp, rate, Rat(464, 10000)))

\* Everything findBestHook computes before its window scan on the legacy path.
LegacyPrepare(smp, rate, winSec, weights) ==
  HookFeatures(LegacyExtract(smp, rate), weights, winSec)

\* the window scan of lines 328-337 from window k on, and the returned object
RECURSIVE HookScan(_, _, _, _)
HookScan(p, k, bst, idx) ==
  IF k + p.win <= p.L
  THEN HookScan(p, k + 1, HookStep(p, k, bst, idx)[1], HookStep(p, k, bst, idx)[2])
  ELSE HookResult(p, bst, idx)

\* findBestHook with useUnifiedExtraction = true, as one function
findBestHookUnified(smp, rate, winSec, weights) ==
  HookScan(HookPrepare(smp, rate, winSec, weights), 0, NegInf, 0)

(* ------------------------------------------------------------------ *)
(* findBestHook on the legacy path, statement by statement             *)
(* ------------------------------------------------------------------ *)
InitLegacy ==
  /\ pc = "findBestHookLegacy"
  /\ samples \in Buffers(MaxSamples)
  /\ sampleRate \in SampleRates
  /\ windowSec \in WindowSecs
  /\ genre \in Genres
  /\ chroma = <<>>
  /\ method = "energy"
  /\ chorusAvail = TRUE
  /\ EnergyIdle
  /\ ChorusIdle
  /\ MainIdle
  /\ FrameIdle
  /\ SeriesIdle

\* lines 269-327 with useUnifiedExtraction = false
LegacyPrepareStep ==
  /\ pc = "findBestHookLegacy"
  /\ prep' = LegacyPrepare(samples, sampleRate, windowSec, genrePresets[genre])
  /\ i' = 0
  /\ best' = NegInf
  /\ bestIdx' = 0
  /\ pc' = "scan"
  /\ UNCHANGED <<inputVars, frameVars, seriesVars, a, chorusVars, mainVars>>

NextLegacy == LegacyPrepareStep \/ EnergyScan \/ EnergyReturn

SpecLegacy == InitLegacy /\ [][NextLegacy]_vars

(* ------------------------------------------------------------------ *)
(* Claims about the legacy path (checked under SpecLegacy)             *)
(* ------------------------------------------------------------------ *)
\* what the unified path prepares for the same call
UnifiedPrep == HookPrepare(samples, sampleRate, windowSec, genrePresets[genre])

\* C22: findBestHook with useUnifiedExtraction = false returns the same
\* startSec and score as with useUnifiedExtraction = true for the same samples,
\* sample rate, window and weights; the legacy series have the same length and
\* report the same frame step as the unified extractor.
C22_LegacyMatchesUnified ==
  pc = "energyDone" =>
    /\ prep.L = UnifiedPrep.L
    /\ prep.frameSec = UnifiedPrep.frameSec
    /\ a.startSec =
         findBestHookUnified(samples, sampleRate, windowSec, genrePresets[genre]).startSec
    /\ a.score =
         findBestHookUnified(samples, sampleRate, windowSec, genrePresets[genre]).score

\* what the legacy path does report: the same number of frames and the same
\* per-frame scores, with the frame length in place of the frame step
C22_LegacyStepIsFrameLength ==
  pc \in {"scan", "energyDone"} =>
    /\ prep.L = UnifiedPrep.L
    /\ prep.scores = UnifiedPrep.scores
    /\ prep.frameSec = RMul(IntR(2), UnifiedPrep.frameSec)

====
